---- MODULE Spec2Model ----
(***************************************************************************)
(* JSONDatabase (src/database.py): an S3-backed JSON object store with a   *)
(* bounded FIFO search index and a linear nearest-neighbour search over    *)
(* the indexed ids.                                                        *)
(*                                                                         *)
(* Numbers are exact: a distance is q + sqrt(s)/100 with q a rational      *)
(* <<numerator, denominator>> and s a natural number, so that the custom   *)
(* distance (a rational) and the euclidean distance (a square root plus a  *)
(* length penalty) are both computed without rounding.  Numeric JSON       *)
(* values are kept in hundredths.                                          *)
(***************************************************************************)
EXTENDS Integers, Sequences, FiniteSets, TLC

\* ---------------------------------------------------------------- bounds
MaxId == 2          \* object ids are 1..MaxId, ordered as S3 orders their keys
MaxNum == 2         \* integer field values are 0..MaxNum
MaxIndexSize == 2   \* index_size is configured in 0..MaxIndexSize
MaxK == 2           \* max_results is drawn from -1..MaxK
feature_dim == 2    \* the feature_dim the database is constructed with

\* ---------------------------------------------------------------- JSON values
JNull == [t |-> "null"]
JInt(n) == [t |-> "int", n |-> n]
JFloat(h) == [t |-> "float", h |-> h]
JStr(s) == [t |-> "str", s |-> s]
JBool(b) == [t |-> "bool", b |-> b]
JDict(d) == [t |-> "dict", d |-> d]
JList(l) == [t |-> "list", l |-> l]

\* The keys of the modelled objects, in sorted() order.
KeyOrder == <<"_id", "features", "x", "y">>
AllKeys == {KeyOrder[i] : i \in 1..Len(KeyOrder)}

\* key.startswith('_')
StartsWithUnderscore(key) == key \in {"_id"}

\* obj.get(key): None for a missing key.
Get(obj, key) == IF key \in DOMAIN obj THEN obj[key] ELSE JNull

\* isinstance(v, (int, float)): bool is a subclass of int.
IsNumber(v) == v.t \in {"int", "float", "bool"}

\* The numeric value of a number, in hundredths.
Num100(v) ==
    IF v.t = "int" THEN 100 * v.n
    ELSE IF v.t = "float" THEN v.h
    ELSE IF v.b THEN 100 ELSE 0

Abs(n) == IF n < 0 THEN -n ELSE n
Min(a, b) == IF a <= b THEN a ELSE b
Max(a, b) == IF a >= b THEN a ELSE b

\* Python's == on JSON values: numbers compare by value across int, float
\* and bool; containers compare element by element.
RECURSIVE PyEq(_, _)
PyEq(v, w) ==
    IF IsNumber(v) /\ IsNumber(w) THEN Num100(v) = Num100(w)
    ELSE IF v.t # w.t THEN FALSE
    ELSE IF v.t = "list" THEN
        /\ Len(v.l) = Len(w.l)
        /\ \A i \in 1..Len(v.l) : PyEq(v.l[i], w.l[i])
    ELSE IF v.t = "dict" THEN
        /\ DOMAIN v.d = DOMAIN w.d
        /\ \A k \in DOMAIN v.d : PyEq(v.d[k], w.d[k])
    ELSE v = w

\* ---------------------------------------------------------------- exact numbers
RECURSIVE GCD(_, _)
GCD(a, b) == IF b = 0 THEN a ELSE GCD(b, a % b)

Rat(n, d) == LET g == GCD(Abs(n), d) IN <<n \div g, d \div g>>
RAdd(p, q) == Rat(p[1] * q[2] + q[1] * p[2], p[2] * q[2])
RMul(p, q) == Rat(p[1] * q[1], p[2] * q[2])
RLe(p, q) == p[1] * q[2] <= q[1] * p[2]
RLt(p, q) == p[1] * q[2] < q[1] * p[2]

RECURSIVE ISqrtFrom(_, _)
ISqrtFrom(s, r) == IF (r + 1) * (r + 1) > s THEN r ELSE ISqrtFrom(s, r + 1)
\* floor(sqrt(s))
ISqrt(s) == ISqrtFrom(s, 0)

\* sqrt(a) < sqrt(b) + c, for an integer c > 0
SqrtLtPos(a, b, c) ==
    \/ a <= b
    \/ LET M == a - b - c * c
       IN  \/ M < 0
           \/ /\ M < 2 * c * (ISqrt(b) + 1)
              /\ M * M < 4 * c * c * b

\* sqrt(a) <= sqrt(b) + c, for an integer c >= 0
SqrtLePos(a, b, c) ==
    \/ a <= b
    \/ LET M == a - b - c * c
       IN  \/ M <= 0
           \/ /\ c > 0
              /\ M <= 2 * c * (ISqrt(b) + 1)
              /\ M * M <= 4 * c * c * b

\* A distance: the number q + sqrt(s)/100.
Dist(q, s) == [q |-> q, s |-> s]
DZero == Dist(<<0, 1>>, 0)
DOne == Dist(<<1, 1>>, 0)

\* d1 <= d2
DLe(d1, d2) ==
    IF d1.s = d2.s THEN RLe(d1.q, d2.q)
    ELSE IF d1.q = d2.q THEN d1.s <= d2.s
    ELSE LET c == RAdd(d2.q, <<-(d1.q[1]), d1.q[2]>>)     \* q2 - q1
             k == c[2]
             cn == 100 * c[1]                             \* (q2 - q1) * 100 * k
             a == d1.s * k * k
             b == d2.s * k * k
         IN  IF cn >= 0 THEN SqrtLePos(a, b, cn) ELSE ~SqrtLtPos(b, a, -cn)

DLt(d1, d2) == ~DLe(d2, d1)
DEq(d1, d2) == DLe(d1, d2) /\ DLe(d2, d1)

\* ---------------------------------------------------------------- distance functions
\* hash(value) % 10000 in hundredths of 10000: Python seeds str hashes per
\* process; this is the table of one process.
StrHash100(s) == IF s = "s" THEN 25 ELSE IF s = "t" THEN 70 ELSE 0

\* extract_value(value), in hundredths
extract_value(v) ==
    IF IsNumber(v) THEN Num100(v)
    ELSE IF v.t = "str" THEN StrHash100(v.s)
    ELSE IF v.t = "dict" THEN Cardinality(DOMAIN v.d)
    ELSE IF v.t = "list" THEN Len(v.l)
    ELSE 0

RECURSIVE ExtractFrom(_, _)
\* The loop over sorted(obj.keys()) from position i of KeyOrder.
ExtractFrom(obj, i) ==
    IF i > Len(KeyOrder) THEN <<>>
    ELSE LET key == KeyOrder[i]
         IN  IF key \notin DOMAIN obj \/ StartsWithUnderscore(key) \/ key = "features"
             THEN ExtractFrom(obj, i + 1)
             ELSE <<extract_value(obj[key])>> \o ExtractFrom(obj, i + 1)

\* _extract_features(obj): the values of the fields in key order, padded
\* with 0.0 and truncated to feature_dim entries (in hundredths).
extract_features(obj) ==
    LET features == ExtractFrom(obj, 1)
    IN  [i \in 1..feature_dim |-> IF i <= Len(features) THEN features[i] ELSE 0]

\* obj.get("features") or self._extract_features(obj)
FeaturesOf(obj) ==
    LET f == Get(obj, "features")
    IN  IF f.t = "list" /\ Len(f.l) > 0
        THEN [i \in 1..Len(f.l) |-> Num100(f.l[i])]
        ELSE extract_features(obj)

RECURSIVE SumSquares(_, _, _)
SumSquares(f1, f2, n) ==
    IF n = 0 THEN 0
    ELSE (f1[n] - f2[n]) * (f1[n] - f2[n]) + SumSquares(f1, f2, n - 1)

\* The penalty for feature vectors of different lengths, in tenths.
LengthPenalty(len1, len2) == Abs(len1 - len2)

\* _euclidean_distance(obj1, obj2)
euclidean_distance(obj1, obj2) ==
    LET features1 == FeaturesOf(obj1)
        features2 == FeaturesOf(obj2)
        min_len == Min(Len(features1), Len(features2))
    IN  Dist(Rat(LengthPenalty(Len(features1), Len(features2)), 10),
             SumSquares(features1, features2, min_len))

\* The numeric branch with the abs() of the numerator forgotten.
NumericDifferenceSigned(a, b) == Rat(a - b, Abs(a) + Abs(b) + 100)

\* The numeric rule without the 1 in the denominator.
NumericDifferenceNoOne(a, b) == Rat(Abs(a - b), Abs(a) + Abs(b))

\* The numeric branch: abs(val1 - val2) / (abs(val1) + abs(val2) + 1)
NumericDifference(a, b) == Rat(Abs(a - b), Abs(a) + Abs(b) + 100)

\* The penalty of a field that is None on either side.
MissingFieldPenalty == <<1, 1>>

RECURSIVE custom_json_distance(_, _)
RECURSIVE FieldDistance(_, _, _)
RECURSIVE SumFields(_, _, _)

\* What one key of all_keys adds to the distance.
FieldDistance(obj1, obj2, key) ==
    LET val1 == Get(obj1, key)
        val2 == Get(obj2, key)
    IN  IF StartsWithUnderscore(key) THEN <<0, 1>>
        ELSE IF val1 = JNull \/ val2 = JNull THEN MissingFieldPenalty
        ELSE IF val1.t # val2.t THEN <<1, 2>>
        ELSE IF IsNumber(val1) THEN
            IF Num100(val1) # 0 \/ Num100(val2) # 0
            THEN NumericDifference(Num100(val1), Num100(val2))
            ELSE <<0, 1>>
        ELSE IF val1.t = "str" THEN
            IF val1.s # val2.s THEN <<1, 1>> ELSE <<0, 1>>
        ELSE IF val1.t = "dict" THEN
            RMul(<<1, 2>>, custom_json_distance(val1.d, val2.d))
        ELSE IF val1.t = "list" THEN
            LET n == Min(Min(Len(val1.l), Len(val2.l)), 3)
                differing == {i \in 1..n : ~PyEq(val1.l[i], val2.l[i])}
            IN  RAdd(Rat(Abs(Len(val1.l) - Len(val2.l)), 10),
                     Rat(2 * Cardinality(differing), 10))
        ELSE <<0, 1>>

SumFields(obj1, obj2, keys) ==
    IF keys = {} THEN <<0, 1>>
    ELSE LET key == CHOOSE k \in keys : TRUE
         IN  RAdd(FieldDistance(obj1, obj2, key),
                  SumFields(obj1, obj2, keys \ {key}))

\* The sum over the keys of obj1 alone.
DistanceOverFirstKeys(obj1, obj2) == SumFields(obj1, obj2, DOMAIN obj1)

\* _custom_json_distance(obj1, obj2): the sum over the union of the keys.
custom_json_distance(obj1, obj2) ==
    SumFields(obj1, obj2, DOMAIN obj1 \cup DOMAIN obj2)

Methods == {"euclidean", "custom", "auto"}

\* calculate_distance(obj1, obj2) under the configured distance_method.
\* "auto" tries the custom distance first; on dictionaries it never raises,
\* so the euclidean fallback is not taken.
calculate_distance(method, obj1, obj2) ==
    IF method = "euclidean" THEN euclidean_distance(obj1, obj2)
    ELSE Dist(custom_json_distance(obj1, obj2), 0)

\* ---------------------------------------------------------------- the database
VARIABLES
    index_size,         \* self.index_size
    distance_method,    \* self.distance_method
    store,              \* the objects under <prefix>/data/, by id
    search_index,       \* self.search_index: the list of indexed ids
    index_doc,          \* the document at <prefix>/index.json
    ret,                \* the outcome of the last call; for a search, with
                        \* self.last_search_stats as the search set it
    obj1, obj2, distance,       \* the arguments and the result of a distance call
    s_pc, s_query, s_k, s_list, s_pos, s_visited, s_results, s_before, s_after,
                        \* a search that runs concurrently with the other calls
    server,             \* the module whose routes the Flask app serves
    assets,             \* the asset files of library-repo, in order of creation
    resp,               \* the last request and its response
    requests            \* the checkout requests that are being handled side by side

dbvars == <<index_size, distance_method, store, search_index, index_doc, ret>>
distvars == <<obj1, obj2, distance>>
searchvars ==
    <<s_pc, s_query, s_k, s_list, s_pos, s_visited, s_results, s_before, s_after>>
libvars == <<server, assets, resp, requests>>
vars == <<dbvars, distvars, searchvars, libvars>>

Ids == 1..MaxId

\* The value of data["_id"]: the id string, named by its number.
JId(i) == [t |-> "str", id |-> i]

\* The objects the callers insert, update and query with.
Payloads == {
    [x |-> JInt(1)],
    [x |-> JInt(2)] }

\* The document at index.json: absent, the JSON _save_index wrote, or bytes
\* that are not that JSON (cut short, or JSON that is no object).
NoDoc == [present |-> FALSE, damage |-> "none", index |-> <<>>]
Doc(index) == [present |-> TRUE, damage |-> "none", index |-> index]
Damages == {"cut short", "no object"}
DamagedDoc(damage) == [present |-> TRUE, damage |-> damage, index |-> <<>>]

NoStats == [set |-> FALSE, objects_checked |-> 0, index_size |-> 0]
Stats(checked, size) == [set |-> TRUE, objects_checked |-> checked, index_size |-> size]

NoQuery == [x |-> JNull]
Ret(op, status) ==
    [op |-> op, status |-> status, k |-> 0, query |-> NoQuery, results |-> <<>>,
     stats |-> NoStats]

SeqToSet(seq) == {seq[i] : i \in 1..Len(seq)}
Contains(seq, e) == e \in SeqToSet(seq)

RemoveNothing(seq, e) == seq

\* list.remove(e): drops the first occurrence.
RECURSIVE Remove(_, _)
Remove(seq, e) ==
    IF seq = <<>> THEN <<>>
    ELSE IF Head(seq) = e THEN Tail(seq)
    ELSE <<Head(seq)>> \o Remove(Tail(seq), e)

\* What insert and update store: the data with its features (euclidean
\* method, unless the data brings its own) and its _id.
Stored(method, data, obj_id) ==
    LET withFeatures ==
            IF method = "euclidean" /\ "features" \notin DOMAIN data
            THEN LET f == extract_features(data)
                 IN  [key \in DOMAIN data \cup {"features"} |->
                        IF key = "features"
                        THEN JList([i \in 1..Len(f) |-> JFloat(f[i])])
                        ELSE data[key]]
            ELSE data
    IN  [key \in DOMAIN withFeatures \cup {"_id"} |->
            IF key = "_id" THEN JId(obj_id) ELSE withFeatures[key]]

\* A load that loses the first id of the stored list.
LoadIndexTail(doc, readFails) ==
    IF readFails \/ ~doc.present \/ doc.index = <<>> THEN <<>> ELSE Tail(doc.index)

\* _load_index(): the 'index' list of the stored document, [] when there is
\* no document or the read fails.
load_index(doc, readFails) ==
    IF readFails \/ ~doc.present THEN <<>> ELSE doc.index

\* A load for which a missing document is an error.
LoadRaisesWhenAbsent(doc, readFails) ==
    IF readFails THEN "ok"
    ELSE IF ~doc.present THEN "NoSuchKey"
    ELSE IF doc.damage = "cut short" THEN "JSONDecodeError"
    ELSE IF doc.damage = "no object" THEN "AttributeError"
    ELSE "ok"

\* How _load_index() ends: it catches ClientError alone, so what json.loads
\* or index_data.get raises leaves the constructor.
LoadIndexOutcome(doc, readFails) ==
    IF readFails \/ ~doc.present THEN "ok"
    ELSE IF doc.damage = "cut short" THEN "JSONDecodeError"
    ELSE IF doc.damage = "no object" THEN "AttributeError"
    ELSE "ok"

\* _save_index(): writes the document unless the put fails; a failure is
\* logged and swallowed.
save_index(doc, index, putFails) ==
    IF putFails THEN doc ELSE Doc(index)

\* The eviction test with > for >=.
IndexOverFull(index, size) == Len(index) > size

\* Whether _update_index evicts the oldest entry before it appends.
IndexFull(index, size) == Len(index) >= size

\* _update_index(obj_id), the list operations: the index afterwards.
\* (With an empty index and index_size <= 0, pop(0) raises IndexError: see
\* UpdateIndexRaises.)
update_index(index, size, obj_id) ==
    IF Contains(index, obj_id) THEN index
    ELSE IF IndexFull(index, size) THEN Append(Tail(index), obj_id)
    ELSE Append(index, obj_id)

UpdateIndexRaises(index, size, obj_id) ==
    ~Contains(index, obj_id) /\ IndexFull(index, size) /\ index = <<>>

\* The ids of a set in ascending order: S3 lists keys in sorted order.
RECURSIVE Sorted(_)
Sorted(S) ==
    IF S = {} THEN <<>>
    ELSE LET m == CHOOSE e \in S : \A o \in S : e <= o
         IN  <<m>> \o Sorted(S \ {m})

\* list_all(limit): the stored ids, [] when the listing fails.
list_all(objects, limit, listFails) ==
    IF listFails THEN <<>>
    ELSE LET ids == Sorted(DOMAIN objects)
         IN  SubSeq(ids, 1, Min(Len(ids), limit))

\* all_ids[-index_size:]
LastN(seq, n) ==
    IF n = 0 \/ n >= Len(seq) THEN seq
    ELSE SubSeq(seq, Len(seq) - n + 1, Len(seq))

\* The orders in which random.sample may return n of the ids.
Samples(ids, n) ==
    {q \in UNION {[1..n -> SeqToSet(ids)]} : \A i, j \in 1..n : i # j => q[i] # q[j]}

\* ---------------------------------------------------------------- search
NoLimit == [set |-> FALSE, d |-> DZero]
Limit(d) == [set |-> TRUE, d |-> d]
WithinLimit(d, max_distance) == ~max_distance.set \/ DLe(d, max_distance.d)

\* self.get(obj_id) inside the loop: None when the object is missing or the
\* read fails.
Fetched(objects, unreachable, obj_id) ==
    obj_id \in DOMAIN objects /\ obj_id \notin unreachable

\* A loop over every stored object instead of the indexed ones.
CandidatesOfStore(index, objects, method, query, max_distance, unreachable) ==
    LET ids == Sorted(DOMAIN objects \ unreachable)
    IN  [i \in 1..Len(ids) |->
            [id |-> ids[i],
             distance |-> calculate_distance(method, query, objects[ids[i]])]]

RECURSIVE Candidates(_, _, _, _, _, _)
\* The loop of find_similar over the index: the (id, distance) pairs of the
\* fetched objects within max_distance, in index order.
Candidates(index, objects, method, query, max_distance, unreachable) ==
    IF index = <<>> THEN <<>>
    ELSE LET obj_id == Head(index)
             rest == Candidates(Tail(index), objects, method, query,
                                max_distance, unreachable)
         IN  IF ~Fetched(objects, unreachable, obj_id) THEN rest
             ELSE LET d == calculate_distance(method, query, objects[obj_id])
                  IN  IF WithinLimit(d, max_distance)
                      THEN <<[id |-> obj_id, distance |-> d]>> \o rest
                      ELSE rest

\* An unstable sort: the next element goes before the elements as far as it.
RECURSIVE InsertBeforeEqual(_, _)
InsertBeforeEqual(sorted, e) ==
    IF sorted = <<>> THEN <<e>>
    ELSE IF DLt(Head(sorted).distance, e.distance)
         THEN <<Head(sorted)>> \o InsertBeforeEqual(Tail(sorted), e)
         ELSE <<e>> \o sorted

\* Where list.sort puts the next element: behind every element that is not
\* farther (the sort is stable).
RECURSIVE InsertSorted(_, _)
InsertSorted(sorted, e) ==
    IF sorted = <<>> THEN <<e>>
    ELSE IF DLe(Head(sorted).distance, e.distance)
         THEN <<Head(sorted)>> \o InsertSorted(Tail(sorted), e)
         ELSE <<e>> \o sorted

RECURSIVE SortFrom(_, _)
SortFrom(sorted, rest) ==
    IF rest = <<>> THEN sorted
    ELSE SortFrom(InsertSorted(sorted, Head(rest)), Tail(rest))

\* results.sort(key=lambda x: x[2])
SortByDistance(results) == SortFrom(<<>>, results)

\* results[:max_results + 1]
SliceOneMore(results, max_results) ==
    SubSeq(results, 1, Min(max_results + 1, Len(results)))

\* results[:max_results]
Slice(results, max_results) ==
    IF max_results >= 0
    THEN SubSeq(results, 1, Min(max_results, Len(results)))
    ELSE SubSeq(results, 1, Max(Len(results) + max_results, 0))

\* find_similar(query, max_results, max_distance)
find_similar(index, objects, method, query, max_results, max_distance, unreachable) ==
    Slice(SortByDistance(Candidates(index, objects, method, query,
                                    max_distance, unreachable)),
          max_results)

\* last_search_stats['objects_checked'] after the loop
ObjectsChecked(index, objects, unreachable) ==
    Cardinality({i \in 1..Len(index) : Fetched(objects, unreachable, index[i])})

\* ---------------------------------------------------------------- the calls
\* The list the for loop of find_similar iterates: self.search_index itself
\* (live), or the list it was before rebuild_index assigned a new one.
LiveList == [live |-> TRUE, items |-> <<>>]
Detached(items) == [live |-> FALSE, items |-> items]

\* The index and the stored objects at one moment.
Snapshot(index, objects, changed) ==
    [index |-> index, objects |-> objects, changed |-> changed]

\* No request has been served and no asset file exists.
NoResponse ==
    [op |-> "none", status |-> 0, error |-> "", asset_id |-> 0, borrower |-> "",
     named |-> "None", filter |-> "none", listed |-> {},
     total_checkouts |-> 0, asset_ids |-> <<>>, checked_out |-> <<>>, errors |-> <<>>,
     imported |-> <<>>]
\* The requests that the threads of the server handle at the same time.
MaxRequests == 2
Requests == 1..MaxRequests
Waiting ==
    [pc |-> "waiting", status |-> 0, asset_id |-> 0, borrower |-> "",
     asset |-> [available |-> TRUE, current_borrower |-> "None", checkout_history |-> <<>>]]
NoRequests == [r \in Requests |-> Waiting]

NoLibrary ==
    server = "handlers" /\ assets = <<>> /\ resp = NoResponse /\ requests = NoRequests

\* No search is in its loop.
NoSearch ==
    /\ s_pc = "idle" /\ s_query = NoQuery /\ s_k = 0 /\ s_list = LiveList
    /\ s_pos = 0 /\ s_visited = <<>> /\ s_results = <<>>
    /\ s_before = Snapshot(<<>>, <<>>, FALSE) /\ s_after = Snapshot(<<>>, <<>>, FALSE)

NotComputed == [set |-> FALSE, d |-> DZero]
Computed(d) == [set |-> TRUE, d |-> d]

\* The constructor over an empty bucket.
Init ==
    /\ index_size \in 0..MaxIndexSize
    /\ distance_method \in {"euclidean", "custom"}
    /\ store = <<>>
    /\ index_doc = NoDoc
    /\ search_index = load_index(NoDoc, FALSE)
    /\ ret = Ret("init", "ok")
    /\ obj1 = NoQuery /\ obj2 = NoQuery /\ distance = NotComputed
    /\ NoSearch
    /\ NoLibrary

Put(objects, obj_id, obj) ==
    [i \in DOMAIN objects \cup {obj_id} |-> IF i = obj_id THEN obj ELSE objects[i]]

Drop(objects, obj_id) ==
    [i \in DOMAIN objects \ {obj_id} |-> objects[i]]

\* insert(data, obj_id)
InsertCall(data, obj_id, putFails, saveFails) ==
    /\ IF putFails
       THEN /\ ret' = Ret("insert", "ClientError")
            /\ UNCHANGED <<store, search_index, index_doc>>
       ELSE /\ store' = Put(store, obj_id, Stored(distance_method, data, obj_id))
            /\ IF UpdateIndexRaises(search_index, index_size, obj_id)
               THEN /\ ret' = Ret("insert", "IndexError")
                    /\ UNCHANGED <<search_index, index_doc>>
               ELSE /\ search_index' = update_index(search_index, index_size, obj_id)
                    /\ index_doc' = IF Contains(search_index, obj_id) THEN index_doc
                                    ELSE save_index(index_doc, search_index', saveFails)
                    /\ ret' = Ret("insert", "ok")
    /\ UNCHANGED <<index_size, distance_method>>

Insert(data, obj_id, putFails, saveFails) ==
    InsertCall(data, obj_id, putFails, saveFails) /\ UNCHANGED <<distvars, libvars, searchvars>>

\* delete(obj_id)
DeleteCall(obj_id, deleteFails, saveFails) ==
    /\ IF deleteFails
       THEN /\ ret' = Ret("delete", "False")
            /\ UNCHANGED <<store, search_index, index_doc>>
       ELSE /\ store' = Drop(store, obj_id)
            /\ IF Contains(search_index, obj_id)
               THEN /\ search_index' = Remove(search_index, obj_id)
                    /\ index_doc' = save_index(index_doc, search_index', saveFails)
               ELSE UNCHANGED <<search_index, index_doc>>
            /\ ret' = Ret("delete", "True")
    /\ UNCHANGED <<index_size, distance_method>>

Delete(obj_id, deleteFails, saveFails) ==
    DeleteCall(obj_id, deleteFails, saveFails) /\ UNCHANGED <<distvars, libvars, searchvars>>

\* update(obj_id, data)
UpdateCall(obj_id, data, putFails) ==
    /\ IF putFails
       THEN /\ ret' = Ret("update", "False")
            /\ UNCHANGED store
       ELSE /\ store' = Put(store, obj_id, Stored(distance_method, data, obj_id))
            /\ ret' = Ret("update", "True")
    /\ UNCHANGED <<index_size, distance_method, search_index, index_doc>>

Update(obj_id, data, putFails) ==
    UpdateCall(obj_id, data, putFails) /\ UNCHANGED <<distvars, libvars, searchvars>>

\* find_similar(query, max_results, max_distance)
FindSimilar(query, max_results, max_distance, unreachable) ==
    /\ ret' = [Ret("find_similar", "ok") EXCEPT
                  !.k = max_results, !.query = query,
                  !.stats = Stats(ObjectsChecked(search_index, store, unreachable),
                                  Len(search_index)),
                  !.results = find_similar(search_index, store, distance_method, query,
                                           max_results, max_distance, unreachable)]
    /\ UNCHANGED <<index_size, distance_method, store, search_index, index_doc,
                   distvars, libvars, searchvars>>

\* rebuild_index(sample_size)
RebuildIndexCall(sample_size, listFails, saveFails) ==
    /\ LET listed == list_all(store, 10000, listFails)
       IN  \E all_ids \in IF sample_size > 0 /\ Len(listed) > sample_size
                          THEN Samples(listed, sample_size)
                          ELSE {listed} :
               /\ search_index' = LastN(all_ids, index_size)
               /\ index_doc' = save_index(index_doc, search_index', saveFails)
    /\ ret' = Ret("rebuild_index", IF listFails THEN "list failed"
                                   ELSE IF saveFails THEN "save failed" ELSE "ok")
    /\ UNCHANGED <<index_size, distance_method, store>>

RebuildIndex(sample_size, listFails, saveFails) ==
    RebuildIndexCall(sample_size, listFails, saveFails) /\ UNCHANGED <<distvars, libvars, searchvars>>

\* A new process constructs the database over the same bucket.  When
\* _load_index raises there is no database, and no index in memory.
Restart(readFails) ==
    /\ search_index' = load_index(index_doc, readFails)
    /\ ret' = Ret("init", LoadIndexOutcome(index_doc, readFails))
    /\ UNCHANGED <<index_size, distance_method, store, index_doc, distvars, libvars, searchvars>>

\* The searches the callers make.
Queries == Payloads
Ks == 1..MaxK

\* A search may find one of the objects unreachable.
\* find_nearest(query): find_similar with max_results = 1, and None when
\* that is empty.
FindNearest(query, unreachable) ==
    LET results == find_similar(search_index, store, distance_method, query,
                                1, NoLimit, unreachable)
    IN /\ ret' = [Ret("find_nearest", IF results = <<>> THEN "None" ELSE "ok") EXCEPT
                     !.k = 1, !.query = query,
                     !.stats = Stats(ObjectsChecked(search_index, store, unreachable),
                                     Len(search_index)),
                     !.results = results]
       /\ UNCHANGED <<index_size, distance_method, store, search_index, index_doc,
                      distvars, libvars, searchvars>>

Unreachables == {{}} \cup {{i} : i \in Ids}

\* Every caller leaves max_distance at its default, None.
MaxDistances == {NoLimit}

\* Which S3 requests of a call fail: the write of the index is reached only
\* when the request before it succeeded.
Failures == {<<FALSE, FALSE>>, <<FALSE, TRUE>>, <<TRUE, FALSE>>}

\* What the callers write where the content of the objects is of no account.
WrittenPayloads == {[x |-> JInt(1)]}

\* The calls that change the database, each S3 request free to fail.
Next ==
    \/ \E data \in WrittenPayloads, obj_id \in Ids, fails \in Failures :
           Insert(data, obj_id, fails[1], fails[2])
    \/ \E obj_id \in Ids, fails \in Failures :
           Delete(obj_id, fails[1], fails[2])
    \/ \E obj_id \in Ids, data \in WrittenPayloads, putFails \in BOOLEAN :
           Update(obj_id, data, putFails)
    \/ \E sample_size \in 0..(MaxId - 1), listFails, saveFails \in BOOLEAN :
           RebuildIndex(sample_size, listFails, saveFails)
    \/ \E readFails \in BOOLEAN : Restart(readFails)

Spec == Init /\ [][Next]_vars

\* One instance from its construction on: the calls of Next without a
\* restart.
InstanceNext ==
    \/ \E data \in WrittenPayloads, obj_id \in Ids, fails \in Failures :
           Insert(data, obj_id, fails[1], fails[2])
    \/ \E obj_id \in Ids, fails \in Failures :
           Delete(obj_id, fails[1], fails[2])
    \/ \E obj_id \in Ids, data \in WrittenPayloads, putFails \in BOOLEAN :
           Update(obj_id, data, putFails)
    \/ \E sample_size \in 0..(MaxId - 1), listFails, saveFails \in BOOLEAN :
           RebuildIndex(sample_size, listFails, saveFails)

InstanceSpec == Init /\ [][InstanceNext]_vars

\* Something else than this class overwrites index.json.
DamageIndexDocument(damage) ==
    /\ index_doc.present
    /\ index_doc' = DamagedDoc(damage)
    /\ UNCHANGED <<index_size, distance_method, store, search_index, ret,
                   distvars, libvars, searchvars>>

\* The constructor returned a database.
Constructed == ~(ret.op = "init" /\ ret.status # "ok")

\* The calls that change the database, and index documents this class did
\* not write.
LoadNext ==
    \/ Constructed /\ \E data \in WrittenPayloads, obj_id \in Ids, fails \in Failures :
                         Insert(data, obj_id, fails[1], fails[2])
    \/ Constructed /\ \E obj_id \in Ids, fails \in Failures :
                         Delete(obj_id, fails[1], fails[2])
    \/ Constructed /\ \E listFails, saveFails \in BOOLEAN :
                         RebuildIndex(0, listFails, saveFails)
    \/ \E damage \in Damages : DamageIndexDocument(damage)
    \/ \E readFails \in BOOLEAN : Restart(readFails)

LoadSpec == Init /\ [][LoadNext]_vars

\* ---------------------------------------------------------------- three records
\* The records a, b, c of the scenario, a database of the default index_size.
DefaultIndexSize == 20
ScenarioIds == {1, 2, 3}
ScenarioPayload(obj_id) ==
    IF obj_id = 1 THEN [x |-> JInt(1)]
    ELSE IF obj_id = 2 THEN [x |-> JInt(2)]
    ELSE [x |-> JInt(10)]

ScenarioInit ==
    /\ index_size = DefaultIndexSize
    /\ distance_method \in Methods
    /\ store = <<>>
    /\ index_doc = NoDoc
    /\ search_index = load_index(NoDoc, FALSE)
    /\ ret = Ret("init", "ok")
    /\ obj1 = NoQuery /\ obj2 = NoQuery /\ distance = NotComputed
    /\ NoSearch
    /\ NoLibrary

ScenarioNext ==
    \/ \E obj_id \in ScenarioIds : Insert(ScenarioPayload(obj_id), obj_id, FALSE, FALSE)
    \/ \E obj_id \in ScenarioIds : Delete(obj_id, FALSE, FALSE)
    \/ \E obj_id \in ScenarioIds, max_results \in Ks :
           FindSimilar(ScenarioPayload(obj_id), max_results, NoLimit, {})

ScenarioSpec == ScenarioInit /\ [][ScenarioNext]_vars

\* Searches between calls that change the database; here the writes succeed,
\* and a read inside a search may fail.
SearchNext ==
    \/ \E data \in Payloads, obj_id \in Ids : Insert(data, obj_id, FALSE, FALSE)
    \/ \E obj_id \in Ids : Delete(obj_id, FALSE, FALSE)
    \/ \E obj_id \in Ids, data \in Payloads : Update(obj_id, data, FALSE)
    \/ \E sample_size \in 0..(MaxId - 1) : RebuildIndex(sample_size, FALSE, FALSE)
    \/ \E query \in Payloads, max_results \in -1..MaxK,
          max_distance \in MaxDistances, unreachable \in Unreachables :
           FindSimilar(query, max_results, max_distance, unreachable)
    \/ \E query \in Payloads, unreachable \in Unreachables :
           FindNearest(query, unreachable)

SearchSpec == Init /\ [][SearchNext]_vars

\* ---------------------------------------------------------------- a search beside a writer
\* The list object the iterator of the running search reads.
Iterated == IF s_list.live THEN search_index ELSE s_list.items

\* find_similar up to its loop.
SearchStart(query, max_results) ==
    /\ s_pc = "idle"
    /\ s_pc' = "loop"
    /\ s_query' = query
    /\ s_k' = max_results
    /\ s_list' = LiveList
    /\ s_pos' = 0
    /\ s_visited' = <<>>
    /\ s_results' = <<>>
    /\ s_before' = Snapshot(search_index, store, FALSE)
    /\ s_after' = Snapshot(search_index, store, FALSE)
    /\ UNCHANGED <<dbvars, distvars, libvars>>

\* One turn of the loop: the iterator yields the next id of the list, the
\* object is fetched and its distance appended.
SearchStep ==
    /\ s_pc = "loop"
    /\ s_pos < Len(Iterated)
    /\ LET obj_id == Iterated[s_pos + 1]
       IN  /\ s_pos' = s_pos + 1
           /\ s_visited' = Append(s_visited, obj_id)
           /\ s_results' =
                  IF Fetched(store, {}, obj_id)
                  THEN Append(s_results,
                              [id |-> obj_id,
                               distance |-> calculate_distance(distance_method, s_query,
                                                               store[obj_id])])
                  ELSE s_results
    /\ UNCHANGED <<dbvars, distvars, libvars, s_pc, s_query, s_k, s_list, s_before, s_after>>

\* The iterator is exhausted: sort, cut and return.
SearchFinish ==
    /\ s_pc = "loop"
    /\ s_pos >= Len(Iterated)
    /\ s_pc' = "done"
    /\ s_results' = Slice(SortByDistance(s_results), s_k)
    /\ ret' = [Ret("find_similar", "ok") EXCEPT
                  !.k = s_k, !.query = s_query,
                  !.stats = Stats(Len(s_results), Len(s_before.index)),
                  !.results = s_results']
    /\ UNCHANGED <<index_size, distance_method, store, search_index, index_doc,
                   distvars, libvars, s_query, s_k, s_list, s_pos, s_visited, s_before, s_after>>

\* The caller has the result.
SearchReturn ==
    /\ s_pc = "done"
    /\ s_pc' = "idle" /\ s_query' = NoQuery /\ s_k' = 0 /\ s_list' = LiveList
    /\ s_pos' = 0 /\ s_visited' = <<>> /\ s_results' = <<>>
    /\ s_before' = Snapshot(<<>>, <<>>, FALSE) /\ s_after' = Snapshot(<<>>, <<>>, FALSE)
    /\ UNCHANGED <<dbvars, distvars, libvars>>

\* What a call of another thread leaves of the running search: the first
\* such call of a search is recorded.
Meanwhile ==
    /\ s_pc = "loop"
    /\ ~s_after.changed
    /\ s_after' = Snapshot(search_index', store', TRUE)
    /\ UNCHANGED <<distvars, libvars, s_pc, s_query, s_k, s_pos, s_visited, s_results, s_before>>

\* insert and delete change the list in place.
InsertMeanwhile(data, obj_id) ==
    InsertCall(data, obj_id, FALSE, FALSE) /\ Meanwhile /\ UNCHANGED s_list

DeleteMeanwhile(obj_id) ==
    DeleteCall(obj_id, FALSE, FALSE) /\ Meanwhile /\ UNCHANGED s_list

\* rebuild_index binds self.search_index to a new list; the iterator keeps
\* the old one.
RebuildIndexMeanwhile ==
    /\ RebuildIndexCall(0, FALSE, FALSE)
    /\ Meanwhile
    /\ s_list' = IF s_list.live THEN Detached(search_index) ELSE s_list

ConcNext ==
    \/ s_pc = "idle" /\ \E data \in Payloads, obj_id \in Ids : Insert(data, obj_id, FALSE, FALSE)
    \/ s_pc = "idle" /\ \E obj_id \in Ids : Delete(obj_id, FALSE, FALSE)
    \/ s_pc = "idle" /\ RebuildIndex(0, FALSE, FALSE)
    \/ \E query \in Payloads, max_results \in 1..MaxK : SearchStart(query, max_results)
    \/ SearchStep
    \/ SearchFinish
    \/ SearchReturn
    \/ \E data \in Payloads, obj_id \in Ids : InsertMeanwhile(data, obj_id)
    \/ \E obj_id \in Ids : DeleteMeanwhile(obj_id)
    \/ RebuildIndexMeanwhile

ConcSpec == Init /\ [][ConcNext]_vars

\* ---------------------------------------------------------------- distance calls
\* The values a field takes in the objects whose distance is computed.
FieldValues ==
    {JNull, JFloat(100), JStr("s"), JStr("t"), JBool(TRUE)}
    \cup {JInt(n) : n \in 0..MaxNum}
    \cup {JDict([x |-> JInt(1)]), JDict([x |-> JNull]), JDict([y |-> JStr("s")])}
    \cup {JList(<<>>), JList(<<JFloat(100)>>), JList(<<JInt(1), JStr("s")>>)}

DistObjects ==
    {[x |-> v] : v \in FieldValues}
    \cup {[x |-> v, y |-> w] : v \in FieldValues, w \in {JNull, JInt(1), JStr("s")}}
    \cup {[y |-> JInt(1)],
          [features |-> JList(<<JInt(1)>>), x |-> JInt(1)],
          [features |-> JList(<<JInt(0), JInt(2), JInt(1)>>)],
          [_id |-> JId(1), x |-> JInt(1)],
          [_id |-> JId(2), x |-> JInt(1)]}

DistInit ==
    /\ index_size = 0
    /\ distance_method \in Methods
    /\ store = <<>>
    /\ index_doc = NoDoc
    /\ search_index = <<>>
    /\ ret = Ret("init", "ok")
    /\ obj1 \in DistObjects /\ obj2 \in DistObjects /\ distance = NotComputed
    /\ NoSearch
    /\ NoLibrary

\* calculate_distance(obj1, obj2)
CalculateDistance ==
    /\ ~distance.set
    /\ distance' = Computed(calculate_distance(distance_method, obj1, obj2))
    /\ UNCHANGED <<dbvars, obj1, obj2, searchvars, libvars>>

DistNext == CalculateDistance

DistSpec == DistInit /\ [][DistNext]_vars

\* ---------------------------------------------------------------- the asset library
\* The library is a directory of asset files, one JSON document per asset,
\* behind a Flask app.  src/handlers.py serves assets, src/api_server.py is
\* the earlier server of the same routes for books.  An asset is written
\* here by its position in the order of creation (the code names it by a
\* fresh uuid4), and a timestamp by whether it is there.
MaxAssets == 2
MaxCheckouts == 2
MaxBatch == 2

Servers == {"handlers", "api_server"}
Borrowers == {"p", "q"}
NoBorrower == ""
BorrowerInputs == Borrowers \cup {NoBorrower}
NoAssetId == 0
AssetIdInputs == NoAssetId..(MaxAssets + 1)

NewAsset == [available |-> TRUE, current_borrower |-> "None", checkout_history |-> <<>>]

Response(op, status, error, asset_id, borrower, named) ==
    [op |-> op, status |-> status, error |-> error,
     asset_id |-> asset_id, borrower |-> borrower, named |-> named,
     filter |-> "none", listed |-> {},
     total_checkouts |-> 0, asset_ids |-> <<>>, checked_out |-> <<>>, errors |-> <<>>,
     imported |-> <<>>]

ErrorText(srv, kind) ==
    IF srv = "handlers"
    THEN CASE kind = "missing"    -> "Missing asset_id or borrower"
           [] kind = "not found"  -> "Asset not found"
           [] kind = "taken"      -> "Asset already checked out"
           [] kind = "not taken"  -> "Asset is not checked out"
           [] kind = "other"      -> "Asset is checked out to someone else"
           [] kind = "no active"  -> "No active checkout found"
           [] kind = "fields"     -> "Missing required fields"
    ELSE CASE kind = "missing"    -> "Missing book_id or borrower"
           [] kind = "not found"  -> "Book not found"
           [] kind = "taken"      -> "Book is already checked out"
           [] kind = "not taken"  -> "Book is not checked out"
           [] kind = "other"      -> "Book is checked out to someone else"

\* os.path.exists(asset_path)
AssetExists(files, asset_id) == asset_id \in 1..Len(files)

AlwaysAvailable(asset) == TRUE

\* asset.get("available", True); book["available"]
IsAvailable(asset) == asset.available

HeldByAnyone(asset, borrower) == TRUE

\* asset.get("current_borrower") != borrower, negated
HeldBy(asset, borrower) == asset.current_borrower = borrower

TotalCheckouts(files) ==
    LET RECURSIVE Sum(_)
        Sum(i) == IF i = 0 THEN 0 ELSE Len(files[i].checkout_history) + Sum(i - 1)
    IN Sum(Len(files))

\* The entry that a return closes: handlers.py takes the first open entry
\* of the borrower, api_server.py the last one; 0 when there is none.
ActiveCheckout(srv, history, borrower) ==
    LET open == {i \in 1..Len(history) :
                    history[i].borrower = borrower /\ ~history[i].returned}
    IN IF open = {} THEN 0
       ELSE IF srv = "handlers"
            THEN CHOOSE i \in open : \A j \in open : i <= j
            ELSE CHOOSE i \in open : \A j \in open : i >= j

CheckedOutUnrecorded(asset, borrower) ==
    [asset EXCEPT !.available = FALSE, !.current_borrower = borrower]

CheckedOut(asset, borrower) ==
    [available |-> FALSE,
     current_borrower |-> borrower,
     checkout_history |-> Append(asset.checkout_history,
                                 [borrower |-> borrower, returned |-> FALSE])]

ReturnedLeftOpen(srv, asset, borrower) ==
    [asset EXCEPT !.available = TRUE, !.current_borrower = "None"]

ReturnedAsset(srv, asset, borrower) ==
    LET active == ActiveCheckout(srv, asset.checkout_history, borrower)
    IN [available |-> TRUE,
        current_borrower |-> "None",
        checkout_history |->
            IF active = 0 THEN asset.checkout_history
            ELSE [asset.checkout_history EXCEPT ![active].returned = TRUE]]

\* POST /checkout
CheckoutCall(asset_id, borrower) ==
    IF asset_id = NoAssetId \/ borrower = NoBorrower
    THEN /\ resp' = Response("checkout", 400, ErrorText(server, "missing"),
                             asset_id, borrower, "None")
         /\ assets' = assets
    ELSE IF ~AssetExists(assets, asset_id)
    THEN /\ resp' = Response("checkout", 404, ErrorText(server, "not found"),
                             asset_id, borrower, "None")
         /\ assets' = assets
    ELSE IF ~IsAvailable(assets[asset_id])
    THEN /\ resp' = Response("checkout", 400, ErrorText(server, "taken"),
                             asset_id, borrower,
                             IF server = "handlers"
                             THEN assets[asset_id].current_borrower ELSE "None")
         /\ assets' = assets
    ELSE /\ TotalCheckouts(assets) < MaxCheckouts
         /\ assets' = [assets EXCEPT ![asset_id] = CheckedOut(@, borrower)]
         /\ resp' = Response("checkout", 200, "", asset_id, borrower, "None")

Checkout(asset_id, borrower) ==
    CheckoutCall(asset_id, borrower) /\ UNCHANGED <<dbvars, distvars, searchvars, server, requests>>

\* POST /return
ReturnCall(asset_id, borrower) ==
    IF asset_id = NoAssetId \/ borrower = NoBorrower
    THEN /\ resp' = Response("return", 400, ErrorText(server, "missing"),
                             asset_id, borrower, "None")
         /\ assets' = assets
    ELSE IF ~AssetExists(assets, asset_id)
    THEN /\ resp' = Response("return", 404, ErrorText(server, "not found"),
                             asset_id, borrower, "None")
         /\ assets' = assets
    ELSE IF IsAvailable(assets[asset_id])
    THEN /\ resp' = Response("return", 400, ErrorText(server, "not taken"),
                             asset_id, borrower, "None")
         /\ assets' = assets
    ELSE IF ~HeldBy(assets[asset_id], borrower)
    THEN /\ resp' = Response("return", 403, ErrorText(server, "other"),
                             asset_id, borrower,
                             IF server = "handlers"
                             THEN assets[asset_id].current_borrower ELSE "None")
         /\ assets' = assets
    ELSE IF /\ server = "handlers"
            /\ ActiveCheckout(server, assets[asset_id].checkout_history, borrower) = 0
    THEN /\ resp' = Response("return", 404, ErrorText(server, "no active"),
                             asset_id, borrower, "None")
         /\ assets' = assets
    ELSE /\ assets' = [assets EXCEPT ![asset_id] = ReturnedAsset(server, @, borrower)]
         /\ resp' = Response("return", 200, "", asset_id, borrower, "None")

ReturnAsset(asset_id, borrower) ==
    ReturnCall(asset_id, borrower) /\ UNCHANGED <<dbvars, distvars, searchvars, server, requests>>

\* POST /add_asset; POST /add_book, which asks for no field
AddAssetCall(complete) ==
    IF server = "handlers" /\ ~complete
    THEN /\ resp' = Response("add_asset", 400, ErrorText(server, "fields"),
                             NoAssetId, NoBorrower, "None")
         /\ assets' = assets
    ELSE /\ Len(assets) < MaxAssets
         /\ assets' = Append(assets, NewAsset)
         /\ resp' = Response("add_asset", 200, "", Len(assets) + 1, NoBorrower, "None")

AddAsset(complete) ==
    AddAssetCall(complete) /\ UNCHANGED <<dbvars, distvars, searchvars, server, requests>>

MatchesAny(available, asset) == TRUE

\* The filter of browse: without ?available= every asset passes, with it
\* the assets whose availability is (available.lower() == 'true').
MatchesAvailable(available, asset) ==
    available = "none" \/ ((available = "true") = IsAvailable(asset))

AvailableInputs == {"none", "true", "false"}

\* The ids in the listing; the browse of api_server.py reads no filter.
BrowseListing(srv, files, available) ==
    {asset_id \in 1..Len(files) :
        srv = "api_server" \/ MatchesAvailable(available, files[asset_id])}

\* GET /browse?available=...
Browse(available) ==
    /\ resp' = [Response("browse", 200, "", NoAssetId, NoBorrower, "None")
                   EXCEPT !.filter = available,
                          !.listed = BrowseListing(server, assets, available)]
    /\ UNCHANGED <<dbvars, distvars, searchvars, server, assets, requests>>

\* GET /history/<asset_id>, of handlers.py
AssetHistory(asset_id) ==
    /\ server = "handlers"
    /\ resp' = IF ~AssetExists(assets, asset_id)
               THEN Response("asset_history", 404, ErrorText(server, "not found"),
                             asset_id, NoBorrower, "None")
               ELSE [Response("asset_history", 200, "", asset_id, NoBorrower, "None")
                       EXCEPT !.total_checkouts = Len(assets[asset_id].checkout_history)]
    /\ UNCHANGED <<dbvars, distvars, searchvars, server, assets, requests>>

\* The loop of batch_checkout: every id is looked up in the files as the
\* turns before it left them; an id that fails is put down with its error.
BatchFirstOnly(files, asset_ids, borrower, checked_out, errors) ==
    IF asset_ids = <<>>
    THEN [files |-> files, checked_out |-> checked_out, errors |-> errors]
    ELSE IF AssetExists(files, Head(asset_ids)) /\ IsAvailable(files[Head(asset_ids)])
    THEN [files |-> [files EXCEPT ![Head(asset_ids)] = CheckedOut(@, borrower)],
          checked_out |-> Append(checked_out, Head(asset_ids)), errors |-> errors]
    ELSE [files |-> files, checked_out |-> checked_out,
          errors |-> Append(errors, [asset_id |-> Head(asset_ids), error |-> "Asset not found"])]

RECURSIVE BatchLoop(_, _, _, _, _)
BatchLoop(files, asset_ids, borrower, checked_out, errors) ==
    IF asset_ids = <<>>
    THEN [files |-> files, checked_out |-> checked_out, errors |-> errors]
    ELSE LET asset_id == Head(asset_ids)
         IN IF ~AssetExists(files, asset_id)
            THEN BatchLoop(files, Tail(asset_ids), borrower, checked_out,
                           Append(errors, [asset_id |-> asset_id, error |-> "Asset not found"]))
            ELSE IF ~IsAvailable(files[asset_id])
            THEN BatchLoop(files, Tail(asset_ids), borrower, checked_out,
                           Append(errors, [asset_id |-> asset_id, error |-> "Already checked out"]))
            ELSE BatchLoop([files EXCEPT ![asset_id] = CheckedOut(@, borrower)],
                           Tail(asset_ids), borrower,
                           Append(checked_out, asset_id), errors)

\* The lists of a batch request: up to MaxBatch ids, of assets that may or
\* may not exist, an id possibly more than once.  The loop takes the ids
\* one by one, so the lists are taken in ascending order.
AssetIdLists ==
    {asset_ids \in UNION {[1..n -> 1..(MaxAssets + 1)] : n \in 0..MaxBatch} :
        \A i, j \in 1..Len(asset_ids) : i < j => asset_ids[i] <= asset_ids[j]}

\* POST /batch/checkout, of handlers.py
BatchCheckoutCall(asset_ids, borrower) ==
    IF asset_ids = <<>> \/ borrower = NoBorrower
    THEN /\ resp' = Response("batch_checkout", 400, "Missing asset_ids or borrower",
                             NoAssetId, borrower, "None")
         /\ assets' = assets
    ELSE LET done == BatchLoop(assets, asset_ids, borrower, <<>>, <<>>)
         IN /\ TotalCheckouts(done.files) <= MaxCheckouts
            /\ assets' = done.files
            /\ resp' = [Response("batch_checkout", 200, "", NoAssetId, borrower, "None")
                          EXCEPT !.asset_ids = asset_ids,
                                 !.checked_out = done.checked_out,
                                 !.errors = done.errors]

BatchCheckout(asset_ids, borrower) ==
    /\ server = "handlers"
    /\ BatchCheckoutCall(asset_ids, borrower)
    /\ UNCHANGED <<dbvars, distvars, searchvars, server, requests>>

\* handlers.py starts on an empty directory, api_server.py puts one sample
\* book into the library it creates.
LibraryInit ==
    /\ index_size = 0
    /\ distance_method = "auto"
    /\ store = <<>>
    /\ index_doc = NoDoc
    /\ search_index = <<>>
    /\ ret = Ret("init", "ok")
    /\ obj1 = NoQuery /\ obj2 = NoQuery /\ distance = NotComputed
    /\ NoSearch
    /\ server \in Servers
    /\ assets = IF server = "handlers" THEN <<>> ELSE <<NewAsset>>
    /\ resp = NoResponse
    /\ requests = NoRequests

LibraryNext ==
    \/ \E complete \in BOOLEAN : AddAsset(complete)
    \/ \E asset_id \in AssetIdInputs, borrower \in BorrowerInputs :
           Checkout(asset_id, borrower)
    \/ \E asset_id \in AssetIdInputs, borrower \in BorrowerInputs :
           ReturnAsset(asset_id, borrower)
    \/ \E available \in AvailableInputs : Browse(available)

LibrarySpec == LibraryInit /\ [][LibraryNext]_vars

\* The loop of batch_import: an entry without a required field is put down
\* with its error, every other entry becomes a new asset file.
RECURSIVE ImportLoop(_, _, _, _, _)
ImportLoop(files, entries, position, imported, errors) ==
    IF position > Len(entries)
    THEN [files |-> files, imported |-> imported, errors |-> errors]
    ELSE IF ~entries[position]
    THEN ImportLoop(files, entries, position + 1, imported,
                    Append(errors, [entry |-> position, error |-> "Missing required fields"]))
    ELSE ImportLoop(Append(files, NewAsset), entries, position + 1,
                    Append(imported, Len(files) + 1), errors)

\* The entries of an import, each one complete (TRUE) or short of a
\* required field (FALSE).
EntryLists == UNION {[1..n -> BOOLEAN] : n \in 0..MaxBatch}

\* POST /batch/import, of handlers.py
BatchImportCall(entries) ==
    IF entries = <<>>
    THEN /\ resp' = Response("batch_import", 400, "No assets provided",
                             NoAssetId, NoBorrower, "None")
         /\ assets' = assets
    ELSE LET done == ImportLoop(assets, entries, 1, <<>>, <<>>)
         IN /\ Len(done.files) <= MaxAssets
            /\ assets' = done.files
            /\ resp' = [Response("batch_import", 200, "", NoAssetId, NoBorrower, "None")
                          EXCEPT !.imported = done.imported,
                                 !.errors = done.errors]

BatchImport(entries) ==
    /\ server = "handlers"
    /\ BatchImportCall(entries)
    /\ UNCHANGED <<dbvars, distvars, searchvars, server, requests>>

\* Checkouts side by side.  The server handles each request in a thread of
\* its own and the handler takes no lock: it loads the asset file, and
\* tests and changes what it loaded before it writes the file back.
\* POST /checkout, up to json.load
CheckoutLoad(r, asset_id, borrower) ==
    /\ requests[r].pc = "waiting"
    /\ AssetExists(assets, asset_id)
    /\ requests' = [requests EXCEPT ![r] =
                       [pc |-> "loaded", status |-> 0, asset_id |-> asset_id,
                        borrower |-> borrower, asset |-> assets[asset_id]]]
    /\ UNCHANGED <<dbvars, distvars, searchvars, server, assets, resp>>

\* POST /checkout, from the test of the loaded asset to the response
CheckoutStore(r) ==
    /\ requests[r].pc = "loaded"
    /\ IF ~IsAvailable(requests[r].asset)
       THEN /\ requests' = [requests EXCEPT ![r].pc = "answered", ![r].status = 400]
            /\ assets' = assets
       ELSE /\ Len(requests[r].asset.checkout_history) < MaxCheckouts
            /\ assets' = [assets EXCEPT ![requests[r].asset_id] =
                             CheckedOut(requests[r].asset, requests[r].borrower)]
            /\ requests' = [requests EXCEPT ![r].pc = "answered", ![r].status = 200]
    /\ UNCHANGED <<dbvars, distvars, searchvars, server, resp>>

\* The client has its response; the thread takes the next request.
Deliver(r) ==
    /\ requests[r].pc = "answered"
    /\ requests' = [requests EXCEPT ![r] = Waiting]
    /\ UNCHANGED <<dbvars, distvars, searchvars, server, assets, resp>>

RaceInit == LibraryInit

RaceNext ==
    \/ AddAsset(TRUE)
    \/ \E r \in Requests, asset_id \in 1..MaxAssets, borrower \in Borrowers :
           CheckoutLoad(r, asset_id, borrower)
    \/ \E r \in Requests : CheckoutStore(r)
    \/ \E r \in Requests : Deliver(r)

RaceSpec == RaceInit /\ [][RaceNext]_vars

\* The asset server with its batch routes.  The requests name an asset id
\* (of an asset that exists or not) and a borrower; the borrowers are alike
\* to the code, so the batches are sent by one of them, for assets that
\* either of them may hold, or without a borrower.
BatchInit == LibraryInit /\ server = "handlers"

BatchBorrowers == {"p", NoBorrower}

BatchNext ==
    \/ \E complete \in BOOLEAN : AddAsset(complete)
    \/ \E asset_id \in 1..(MaxAssets + 1), borrower \in Borrowers :
           Checkout(asset_id, borrower)
    \/ \E asset_id \in 1..(MaxAssets + 1), borrower \in Borrowers :
           ReturnAsset(asset_id, borrower)
    \/ \E asset_id \in 1..(MaxAssets + 1) : AssetHistory(asset_id)
    \/ \E asset_ids \in AssetIdLists, borrower \in BatchBorrowers :
           BatchCheckout(asset_ids, borrower)
    \/ \E entries \in EntryLists : BatchImport(entries)

BatchSpec == BatchInit /\ [][BatchNext]_vars

C9_SelfDistanceZero ==
    (distance.set /\ obj1 = obj2) => DEq(distance.d, DZero)

\* C10: distance(a, b) = distance(b, a) for every pair of objects.
C10_Symmetric ==
    distance.set => DEq(distance.d, calculate_distance(distance_method, obj2, obj1))

\* A nonzero distance between objects with different keys has been computed.
C10_Witness ==
    /\ distance.set
    /\ DOMAIN obj1 # DOMAIN obj2
    /\ DLt(DZero, distance.d)

\* ---------------------------------------------------------------- claims on the search
ResultIds(results) == [i \in 1..Len(results) |-> results[i].id]
Pos(seq, e) == CHOOSE i \in 1..Len(seq) : seq[i] = e
Front(seq) == SubSeq(seq, 1, Len(seq) - 1)

\* The last call was a search for max_results >= 1 that fetched every
\* indexed object.
SearchedAll ==
    /\ ret.op = "find_similar"
    /\ ret.k >= 1
    /\ ret.stats.objects_checked = ret.stats.index_size

\* The distance of the last query to a stored object.
QueryDistance(obj_id) == calculate_distance(distance_method, ret.query, store[obj_id])

\* a is before b in a scan sorted by distance, ties resolved by id.
BeforeById(a, b) ==
    \/ DLt(QueryDistance(a), QueryDistance(b))
    \/ DEq(QueryDistance(a), QueryDistance(b)) /\ a < b

\* The ids a linear scan of all stored objects, sorted by distance with ties
\* resolved by id, gives as its first k.
BruteForceIds(k) ==
    CHOOSE S \in SUBSET DOMAIN store :
        /\ Cardinality(S) = Min(k, Cardinality(DOMAIN store))
        /\ \A a \in S, b \in DOMAIN store \ S : BeforeById(a, b)

BeforeByPosition(a, b) ==
    \/ DLt(QueryDistance(a), QueryDistance(b))
    \/ /\ DEq(QueryDistance(a), QueryDistance(b))
       /\ Pos(search_index, a) < Pos(search_index, b)

C2_AtMostKAscending ==
    (ret.op = "find_similar" /\ ret.k >= 1) =>
        /\ Len(ret.results) <= ret.k
        /\ \A i, j \in 1..Len(ret.results) :
               i < j => DLe(ret.results[i].distance, ret.results[j].distance)

\* A search returned two entries of different distances, the nearer one
\* indexed behind the other.
C2_Witness ==
    /\ ret.op = "find_similar"
    /\ Len(ret.results) = 2
    /\ DLt(ret.results[1].distance, ret.results[2].distance)
    /\ Pos(search_index, ret.results[1].id) > Pos(search_index, ret.results[2].id)

\* C3: a search for k < 1 returns nothing and fetches no object.
C3_NonPositiveKRejected ==
    (ret.op = "find_similar" /\ ret.k < 1) =>
        /\ ret.results = <<>>
        /\ ret.stats.objects_checked = 0

\* ---------------------------------------------------------------- claims on insert and rebuild
\* The index rebuild_index() builds from the stored objects.
RebuiltIndex == LastN(list_all(store, 10000, FALSE), index_size)

C5_RebuildSwapsAfterPersist ==
    [][(ret'.op = "rebuild_index" /\ ret'.status = "save failed") =>
          (search_index' = search_index /\ index_doc' = index_doc)]_vars

\* C6: a rebuild whose listing fails leaves the index in memory and the
\* persisted document as they were.
C6_ListFailureLeavesIndex ==
    [][(ret'.op = "rebuild_index" /\ ret'.status = "list failed") =>
          (search_index' = search_index /\ index_doc' = index_doc)]_vars

\* The result of a search over a snapshot.
ResultOver(snapshot) ==
    find_similar(snapshot.index, snapshot.objects, distance_method, s_query, s_k,
                 NoLimit, {})

\* C7: a search beside one index change (insert, delete, rebuild) visits
\* the ids of the index as it was before the change or as it is after it,
\* none skipped or repeated, and returns the result over that snapshot.
C7_SearchSeesOneSnapshot ==
    s_pc = "done" =>
        \E snapshot \in {s_before, s_after} :
            /\ s_visited = snapshot.index
            /\ s_results = ResultOver(snapshot)

\* ---------------------------------------------------------------- claims on ties and persistence
\* C11: two entries of a search result at the same distance are in
\* ascending order of their ids.
C11_TiesOrderedById ==
    ret.op = "find_similar" =>
        \A i, j \in 1..Len(ret.results) :
            (i < j /\ DEq(ret.results[i].distance, ret.results[j].distance)) =>
                ret.results[i].id < ret.results[j].id

Returned(r) == IF r.op = "rebuild_index" THEN "None" ELSE r.status

\* C13: a rebuild whose index write failed returns to its caller something
\* else than a rebuild whose write succeeded; the index in memory is built
\* from the stored objects and the document is the old one.
C13_BuiltNotSavedSurfaced ==
    [][(ret'.op = "rebuild_index" /\ ret'.status = "save failed") =>
          /\ Returned(ret') # Returned(Ret("rebuild_index", "ok"))
          /\ SeqToSet(search_index') \subseteq DOMAIN store
          /\ index_doc' = index_doc]_vars

\* C14: a constructor that reads a damaged index document returns a
\* database whose index is empty.
C14_DamagedDocumentLoadsEmpty ==
    [][(Restart(FALSE) /\ index_doc.present /\ index_doc.damage # "none") =>
          (ret'.status = "ok" /\ search_index' = <<>>)]_vars

\* C15: a constructor that finds no index document returns a database whose
\* index is empty.
C15_MissingDocumentLoadsEmpty ==
    [][(Restart(FALSE) /\ ~index_doc.present) =>
          (ret'.status = "ok" /\ search_index' = <<>>)]_vars

\* A new process found objects stored and no index document.
C15_Witness ==
    /\ ret.op = "init"
    /\ ret.status = "ok"
    /\ ~index_doc.present
    /\ store # <<>>
    /\ search_index = <<>>

\* ---------------------------------------------------------------- claims on unreadable and absent records
\* C16: whichever record cannot be fetched while rebuild_index runs, the
\* rebuilt index holds no id of such a record.
C16_RebuildIndexesFetchedOnly ==
    [][\A unreachable \in Unreachables :
          (ret'.op = "rebuild_index" /\ ret'.status = "ok") =>
              \A i \in 1..Len(search_index') :
                  Fetched(store, unreachable, search_index'[i])]_vars

\* C17: a search for k >= 1 over an empty index returns the empty sequence.
C17_EmptyIndexEmptyResult ==
    (ret.op = "find_similar" /\ ret.k >= 1 /\ search_index = <<>>) =>
        ret.results = <<>>

\* A search for k >= 1 ran over an empty index while an object was stored.
C17_Witness ==
    /\ ret.op = "find_similar"
    /\ ret.k >= 1
    /\ search_index = <<>>
    /\ store # <<>>
    /\ ret.stats.set
    /\ ret.stats.index_size = 0

\* ---------------------------------------------------------------- the scenario of three records
\* The query {x: 1} for two results was answered with a, b and c stored and
\* indexed.
ScenarioSearched ==
    /\ ret.op = "find_similar"
    /\ ret.query = ScenarioPayload(1)
    /\ ret.k = 2
    /\ DOMAIN store = ScenarioIds
    /\ SeqToSet(search_index) = ScenarioIds

SaysAlreadyCheckedOut(error) ==
    error \in {"Asset already checked out", "Book is already checked out"}

\* C20: a checkout request (asset id and borrower given) for an asset that
\* is checked out is answered 400 with an "already checked out" error and
\* leaves the asset as it was: still unavailable, still with its borrower,
\* with no entry added to its checkout_history.
C20_CheckedOutIsRefused ==
    [][(/\ resp'.op = "checkout"
        /\ resp'.borrower # NoBorrower
        /\ AssetExists(assets, resp'.asset_id)
        /\ ~assets[resp'.asset_id].available)
       => /\ resp'.status = 400
          /\ SaysAlreadyCheckedOut(resp'.error)
          /\ assets' = assets
          /\ ~assets'[resp'.asset_id].available
          /\ assets'[resp'.asset_id].current_borrower
                 = assets[resp'.asset_id].current_borrower
          /\ Len(assets'[resp'.asset_id].checkout_history)
                 = Len(assets[resp'.asset_id].checkout_history)]_vars

\* A second borrower was refused an asset that the first one holds.
C20_Witness ==
    /\ resp.op = "checkout" /\ resp.status = 400
    /\ SaysAlreadyCheckedOut(resp.error)
    /\ AssetExists(assets, resp.asset_id)
    /\ ~assets[resp.asset_id].available
    /\ assets[resp.asset_id].current_borrower \in Borrowers \ {resp.borrower}
    /\ Len(assets[resp.asset_id].checkout_history) = 1

SaysSomeoneElse(error) ==
    error \in {"Asset is checked out to someone else",
               "Book is checked out to someone else"}

OpenEntries(history) == {i \in 1..Len(history) : ~history[i].returned}

\* C21: a return request by a borrower who is not the current_borrower of
\* a checked-out asset is answered 403 with a "checked out to someone else"
\* error and leaves the asset as it was: unavailable, with its borrower,
\* with the same open entries in its checkout_history.
C21_WrongBorrowerIsRefused ==
    [][(/\ resp'.op = "return"
        /\ resp'.borrower # NoBorrower
        /\ AssetExists(assets, resp'.asset_id)
        /\ ~assets[resp'.asset_id].available
        /\ assets[resp'.asset_id].current_borrower # resp'.borrower)
       => /\ resp'.status = 403
          /\ SaysSomeoneElse(resp'.error)
          /\ assets' = assets
          /\ ~assets'[resp'.asset_id].available
          /\ assets'[resp'.asset_id].current_borrower
                 = assets[resp'.asset_id].current_borrower
          /\ OpenEntries(assets'[resp'.asset_id].checkout_history)
                 = OpenEntries(assets[resp'.asset_id].checkout_history)
          /\ OpenEntries(assets'[resp'.asset_id].checkout_history) # {}]_vars

\* The second borrower was refused the return of what the first one holds.
C21_Witness ==
    /\ resp.op = "return" /\ resp.status = 403
    /\ SaysSomeoneElse(resp.error)
    /\ AssetExists(assets, resp.asset_id)
    /\ ~assets[resp.asset_id].available
    /\ assets[resp.asset_id].current_borrower \in Borrowers \ {resp.borrower}
    /\ OpenEntries(assets[resp.asset_id].checkout_history) # {}

\* An asset is out when its checkout_history holds an entry that was not
\* returned: a checkout succeeded and no return of it did since.
NotOut(files) ==
    {asset_id \in 1..Len(files) : OpenEntries(files[asset_id].checkout_history) = {}}

\* C22: on the asset server, browse?available=true lists exactly the
\* assets that are not checked out; the asset of a successful checkout is
\* not in the listing, the asset of a successful return is in it again.
C22_BrowseListsWhatIsIn ==
    [][server = "handlers" =>
        /\ (resp'.op = "browse" /\ resp'.filter = "true")
               => resp'.listed = NotOut(assets')
        /\ (resp'.op = "checkout" /\ resp'.status = 200)
               => resp'.asset_id \notin BrowseListing(server, assets', "true")
        /\ (resp'.op = "return" /\ resp'.status = 200)
               => resp'.asset_id \in BrowseListing(server, assets', "true")]_vars

\* A browse that lists one asset and leaves out the one that is out, after
\* an earlier checkout of the listed one was returned.
C22_Witness ==
    /\ server = "handlers"
    /\ resp.op = "browse" /\ resp.filter = "true"
    /\ resp.listed = {1} /\ Len(assets) = 2
    /\ Len(assets[1].checkout_history) = 1
    /\ Len(assets[2].checkout_history) = 1

Occurrences(seq, x) == Cardinality({i \in 1..Len(seq) : seq[i] = x})

\* The successful checkouts of an asset that a response reports.
Succeeded(r, asset_id) ==
    IF r.op = "checkout" /\ r.status = 200 /\ r.asset_id = asset_id THEN 1
    ELSE IF r.op = "batch_checkout" /\ r.status = 200
    THEN Occurrences(r.checked_out, asset_id)
    ELSE 0

\* C23: request by request, the checkout_history of every asset grows by
\* the successful checkouts of that asset and by nothing else (a new asset
\* starts with none), so its length is the number of successful checkouts;
\* the asset history reports that length as total_checkouts; a successful
\* return marks one open entry of its borrower as returned and changes
\* nothing else in the history.
C23_HistoryCountsCheckouts ==
    [][/\ \A asset_id \in 1..Len(assets') :
              Len(assets'[asset_id].checkout_history)
                 = IF asset_id <= Len(assets)
                   THEN Len(assets[asset_id].checkout_history) + Succeeded(resp', asset_id)
                   ELSE 0
       /\ (resp'.op = "asset_history" /\ resp'.status = 200)
              => resp'.total_checkouts = Len(assets'[resp'.asset_id].checkout_history)
       /\ (resp'.op = "return" /\ resp'.status = 200)
              => \E i \in 1..Len(assets[resp'.asset_id].checkout_history) :
                    /\ assets[resp'.asset_id].checkout_history[i]
                          = [borrower |-> resp'.borrower, returned |-> FALSE]
                    /\ assets'[resp'.asset_id].checkout_history
                          = [assets[resp'.asset_id].checkout_history
                                EXCEPT ![i].returned = TRUE]]_vars

\* The history of an asset that was checked out, returned and checked out
\* again is reported with two checkouts.
C23_Witness ==
    /\ resp.op = "asset_history" /\ resp.status = 200
    /\ resp.total_checkouts = 2
    /\ Len(assets[resp.asset_id].checkout_history) = 2
    /\ assets[resp.asset_id].checkout_history[1].returned
    /\ ~assets[resp.asset_id].checkout_history[2].returned

\* The ids a batch response puts down with an error, in order.
ErrorIds(r) == [i \in 1..Len(r.errors) |-> r.errors[i].asset_id]

\* C24: a batch checkout answers for every listed id, in checked_out or
\* in errors; a listed asset that exists and was available is checked out
\* to the borrower with one new open entry, once, and its further
\* occurrences in the list are errors; every other listed id is an error
\* at each occurrence and its asset, like every unlisted one, is as it was.
C24_BatchTreatsIdsOneByOne ==
    [][(resp'.op = "batch_checkout" /\ resp'.status = 200) =>
        /\ Len(resp'.checked_out) + Len(resp'.errors) = Len(resp'.asset_ids)
        /\ Len(assets') = Len(assets)
        /\ \A asset_id \in 1..(MaxAssets + 1) :
              LET listed == Occurrences(resp'.asset_ids, asset_id)
              IN IF /\ listed > 0
                    /\ asset_id <= Len(assets)
                    /\ assets[asset_id].available
                 THEN /\ Occurrences(resp'.checked_out, asset_id) = 1
                      /\ Occurrences(ErrorIds(resp'), asset_id) = listed - 1
                      /\ assets'[asset_id] =
                            [available |-> FALSE,
                             current_borrower |-> resp'.borrower,
                             checkout_history |->
                                 Append(assets[asset_id].checkout_history,
                                        [borrower |-> resp'.borrower,
                                         returned |-> FALSE])]
                 ELSE /\ Occurrences(resp'.checked_out, asset_id) = 0
                      /\ Occurrences(ErrorIds(resp'), asset_id) = listed
                      /\ asset_id <= Len(assets)
                            => assets'[asset_id] = assets[asset_id]]_vars

\* A batch of two: one asset was free and is taken, the other is held by
\* someone else and is put down as an error.
C24_Witness ==
    /\ resp.op = "batch_checkout" /\ resp.status = 200
    /\ Len(resp.asset_ids) = 2
    /\ Len(resp.checked_out) = 1 /\ Len(resp.errors) = 1
    /\ resp.errors[1].error = "Already checked out"
    /\ assets[resp.errors[1].asset_id].current_borrower \in Borrowers \ {resp.borrower}
    /\ assets[resp.checked_out[1]].current_borrower = resp.borrower

\* C27: with the requests handled one at a time, every asset is either
\* available, with no borrower and no open entry in its history, or not
\* available, with a borrower and exactly one open entry, which is the
\* entry of that borrower.
C27_FlagBorrowerAndHistoryAgree ==
    \A asset_id \in 1..Len(assets) :
        LET asset == assets[asset_id]
            open == OpenEntries(asset.checkout_history)
        IN /\ asset.available <=> asset.current_borrower = "None"
           /\ asset.available <=> open = {}
           /\ ~asset.available =>
                 /\ Cardinality(open) = 1
                 /\ \A i \in open :
                       asset.checkout_history[i].borrower = asset.current_borrower

\* An asset is held for the second time, by another borrower than the
\* first, beside an asset that nobody holds.
C27_Witness ==
    /\ Len(assets) = 2
    /\ ~assets[1].available /\ Len(assets[1].checkout_history) = 2
    /\ assets[1].checkout_history[1].returned
    /\ assets[1].checkout_history[1].borrower # assets[1].current_borrower
    /\ assets[2].available

\* The requests that were answered with a success for an asset.
Won(asset_id) ==
    {r \in Requests : /\ requests[r].pc = "answered"
                      /\ requests[r].status = 200
                      /\ requests[r].asset_id = asset_id}

\* C28: of the checkouts of one asset that are handled side by side at
\* most one is answered with a success, the asset has at most one open
\* entry, and a borrower who was answered with a success is the
\* current_borrower of the asset.
C28_OneCheckoutWins ==
    \A asset_id \in 1..Len(assets) :
        /\ Cardinality(Won(asset_id)) <= 1
        /\ Cardinality(OpenEntries(assets[asset_id].checkout_history)) <= 1
        /\ \A r \in Won(asset_id) :
              assets[asset_id].current_borrower = requests[r].borrower

\* ---------------------------------------------------------------- claims on the size and the content of the index
\* C25: the search index never holds more than index_size ids, whatever
\* index_size was configured (0 included) and whatever sequence of insert,
\* update, delete and rebuild_index was run from the empty index.
C25_IndexWithinSize ==
    Len(search_index) <= index_size

\* C26: find_nearest returns None only when nothing
\* is stored, and otherwise the stored object that is nearest to the query
\* (stated for the searches in which every indexed object was fetched).
C26_NearestOfStored ==
    (/\ ret.op = "find_nearest"
     /\ ret.stats.objects_checked = ret.stats.index_size)
    => /\ ret.status = "None" => store = <<>>
       /\ store # <<>> =>
             /\ ret.status = "ok"
             /\ Len(ret.results) = 1
             /\ ret.results[1].id \in DOMAIN store
             /\ \A obj_id \in DOMAIN store :
                   DLe(ret.results[1].distance, QueryDistance(obj_id))

IndexNamesStoredOnce ==
    /\ \A i \in 1..Len(search_index) : search_index[i] \in DOMAIN store
    /\ \A i, j \in 1..Len(search_index) : i # j => search_index[i] # search_index[j]

ReturnedNormally(r) ==
    \/ r.op = "insert" /\ r.status = "ok"
    \/ r.op = "delete" /\ r.status \in {"True", "False"}
    \/ r.op = "rebuild_index"

\* C30: after an insert, delete or rebuild_index that returned without
\* raising, the persisted index document holds the ids of the index in
\* memory, in the same order (a restart at that point loads that index),
\* also when the write of the document failed.
C30_PersistedIndexIsCurrent ==
    [][ReturnedNormally(ret') =>
          load_index(index_doc', FALSE) = search_index']_vars

====
